---- MODULE Spec2Model ----
(***************************************************************************)
(* Model of gears.draw.transforms: the transform decorators SkewX, SkewY,  *)
(* Translation, Rotation and Scaling, rendered through the OpenGL          *)
(* modelview matrix stack.  One render() call is a Python frame; a step    *)
(* of the model is one statement of a render() body.                       *)
(***************************************************************************)
EXTENDS Integers, Sequences, FiniteSets, TLC

\* Deepest nesting of decorators around the primitive in the trees explored.
MaxDepth == 3

(***************************************************************************)
(* 4x4 matrices, stored as OpenGL stores them: 16 numbers, column-major    *)
(* (element of row r, column c, both from 0, is at index 4*c + r + 1).     *)
(***************************************************************************)
Identity == <<1,0,0,0, 0,1,0,0, 0,0,1,0, 0,0,0,1>>

At(m, r, c) == m[4 * c + r + 1]

Product(a, b) ==
    [i \in 1..16 |->
        LET r == (i - 1) % 4
            c == (i - 1) \div 4
        IN  At(a, r, 0) * At(b, 0, c) + At(a, r, 1) * At(b, 1, c)
          + At(a, r, 2) * At(b, 2, c) + At(a, r, 3) * At(b, 3, c)]

\* The matrix product a * b (each operand evaluated once).
MatMul(a, b) == CHOOSE p \in { Product(x, y) : x \in {a}, y \in {b} } : TRUE

Image(m, v) ==
    [r \in 1..4 |->
        At(m, r - 1, 0) * v[1] + At(m, r - 1, 1) * v[2]
      + At(m, r - 1, 2) * v[3] + At(m, r - 1, 3) * v[4]]

\* The image of the homogeneous point v = <<x, y, z, w>> under m (each
\* operand evaluated once).
Transform(m, v) == CHOOSE p \in { Image(x, y) : x \in {m}, y \in {v} } : TRUE

Top(stack) == stack[Len(stack)]

SetTop(stack, m) == [stack EXCEPT ![Len(stack)] = m]

(***************************************************************************)
(* The OpenGL calls the decorators make, on the matrix stack.              *)
(***************************************************************************)
\* A push as the comments in render() describe it: the new top is the identity.
glPushMatrixLoadsIdentity(stack) == Append(stack, Identity)

\* glPushMatrix duplicates the current matrix on top of the stack.
glPushMatrix(stack) == Append(stack, Top(stack))

\* glPopMatrix removes the current matrix; the one below becomes current.
glPopMatrix(stack) == SubSeq(stack, 1, Len(stack) - 1)

\* A multiplication on the other side: current := m * current.
glMultMatrixfOnTheLeft(stack, m) == SetTop(stack, MatMul(m, Top(stack)))

\* glMultMatrixf(m): current := current * m, m read column-major.
glMultMatrixf(stack, m) == SetTop(stack, MatMul(Top(stack), m))

\* glTranslatef(x, y, z): current := current * T(x, y, z).
glTranslatef(stack, x, y, z) ==
    glMultMatrixf(stack, <<1,0,0,0, 0,1,0,0, 0,0,1,0, x,y,z,1>>)

\* glScalef(x, y, z): current := current * diag(x, y, z, 1).
glScalef(stack, x, y, z) ==
    glMultMatrixf(stack, <<x,0,0,0, 0,y,0,0, 0,0,z,0, 0,0,0,1>>)

(***************************************************************************)
(* math.tan on the skew parameters explored.  The parameter is an angle    *)
(* (named by a string); only angles with an integer tangent are explored.  *)
(***************************************************************************)
SkewXDegrees == {"-atan(2)"}

SkewYDegrees == {"pi/4"}

tan(degree) ==
    CASE degree = "0"        -> 0
      [] degree = "pi/4"     -> 1
      [] degree = "-pi/4"    -> -1
      [] degree = "atan(2)"  -> 2
      [] degree = "-atan(2)" -> -2

(***************************************************************************)
(* Nodes.  A node is a record; kind names its class.                       *)
(***************************************************************************)
\* draw.primitives.Triangle: three 2D points, emitted as given.
Triangle == [kind |-> "Triangle",
             points |-> << <<200, 200>>, <<100, 400>>, <<0, 0>> >>]

SkewX(node, degree) == [kind |-> "SkewX", node |-> node, degree |-> degree]

SkewY(node, degree) == [kind |-> "SkewY", node |-> node, degree |-> degree]

Translation(node, x, y) == [kind |-> "Translation", node |-> node, x |-> x, y |-> y]

\* theta is an angle in radians, a rational multiple n/d of pi.
Rotation(node, theta) == [kind |-> "Rotation", node |-> node, theta |-> theta]

Scaling(node, factor) == [kind |-> "Scaling", node |-> node, factor |-> factor]

Offsets == { <<250, 0>>, <<500, 0>>, <<0, 200>> }

Thetas == { [n |-> 0, d |-> 1], [n |-> 1, d |-> 2] }

Factors == {0, 1, 2}

Wrappers(nodes) ==
       { Translation(n, o[1], o[2]) : n \in nodes, o \in Offsets }
  \cup { Rotation(n, t) : n \in nodes, t \in Thetas }
  \cup { Scaling(n, f) : n \in nodes, f \in Factors }
  \cup { SkewX(n, g) : n \in nodes, g \in SkewXDegrees }
  \cup { SkewY(n, g) : n \in nodes, g \in SkewYDegrees }

RECURSIVE Trees(_)
Trees(depth) ==
    IF depth = 0 THEN {Triangle}
    ELSE LET sub == Trees(depth - 1) IN sub \cup Wrappers(sub)

IsDecorator(node) == node.kind # "Triangle"

\* Matrix stacks the backend can hold when render() is called.
BaseMatrix == <<2,0,0,0, 0,3,0,0, 0,0,1,0, 10,20,0,1>>

InitialStacks == { <<Identity>>, <<Identity, BaseMatrix>> }

VARIABLES
    root,      \* the node whose render() the caller invokes
    mstack,    \* the OpenGL modelview matrix stack, current matrix last
    frames,    \* the Python call stack of render() frames, innermost last
    exc,       \* the exception in flight, "none" when there is none
    status,    \* of the caller's root.render(): ready, running, returned, raised
    cmds,      \* the backend commands issued so far, in order
    calls,     \* the render() calls finished so far, in order of exit
    tans,      \* the number of math.tan evaluations made so far
    roots,     \* the window's attached root nodes, in attachment order
    cursor,    \* the index in roots of the root being rendered
    frameNo,   \* the number of the frame being rendered
    parked,    \* a second traversal, suspended: its root, frames, status, exc
    preempted  \* whether a traversal was ever suspended in the middle of render()

window == <<roots, cursor, frameNo>>

sched == <<parked, preempted>>

vars == <<root, mstack, frames, exc, status, cmds, calls, tans, window, sched>>

(***************************************************************************)
(* The names bound in the module's global namespace (lines 17-18 import GL *)
(* and math; the class statements bind the five classes).                  *)
(***************************************************************************)
ModuleGlobals == {"GL", "math", "SkewX", "SkewY", "Translation", "Rotation", "Scaling"}

\* theta * 180 / pi for theta = (n/d) * pi radians.
RadiansToDegrees(theta) == (theta.n * 180) \div theta.d

(***************************************************************************)
(* The statements of each render() body, in program order.                 *)
(***************************************************************************)
\* Variants of the body: a second pop, the pop left out, the transform issued
\* before the push, the wrapped node rendered before the transform.
DecoratorBodyPopTwice ==
    <<"glPushMatrix", "transform", "render", "glPopMatrix", "glPopMatrix">>

DecoratorBodyWithoutPop == <<"glPushMatrix", "transform", "render">>

DecoratorBodyTransformFirst == <<"transform", "glPushMatrix", "render", "glPopMatrix">>

DecoratorBodyRenderFirst == <<"glPushMatrix", "render", "transform", "glPopMatrix">>

DecoratorBody == <<"glPushMatrix", "transform", "render", "glPopMatrix">>

RenderBody(node) == IF IsDecorator(node) THEN DecoratorBody ELSE <<"draw">>

\* The names a decorator's transform statement reads from the global scope.
TransformGlobals(node) ==
    CASE node.kind = "SkewX"       -> {"GL", "math"}
      [] node.kind = "SkewY"       -> {"GL", "math"}
      [] node.kind = "Translation" -> {"GL"}
      [] node.kind = "Rotation"    -> {"GL", "pi"}
      [] node.kind = "Scaling"     -> {"GL"}

\* Variant: the list written row by row, the tangent in the second place.
SkewXCommandRowMajor(node) ==
    [op |-> "glMultMatrixf",
     args |-> <<1,tan(node.degree),0,0, 0,1,0,0, 0,0,1,0, 0,0,0,1>>]

\* SkewX.render: GL.glMultMatrixf([1,0,0,0, tan(degree),1,0,0, 0,0,1,0, 0,0,0,1])
SkewXCommand(node) ==
    [op |-> "glMultMatrixf",
     args |-> <<1,0,0,0, tan(node.degree),1,0,0, 0,0,1,0, 0,0,0,1>>]

\* SkewY.render: GL.glMultMatrixf([1,tan(degree),0,0, 0,1,0,0, 0,0,1,0, 0,0,0,1])
SkewYCommand(node) ==
    [op |-> "glMultMatrixf",
     args |-> <<1,tan(node.degree),0,0, 0,1,0,0, 0,0,1,0, 0,0,0,1>>]

\* Variant: self._x passed for both offsets.
TranslationCommandXTwice(node) ==
    [op |-> "glTranslatef", args |-> <<node.x, node.x, 0>>]

\* Translation.render: GL.glTranslatef(self._x, self._y, 0)
TranslationCommand(node) ==
    [op |-> "glTranslatef", args |-> <<node.x, node.y, 0>>]

\* Rotation.render: GL.glRotatef(self._theta * 180 / pi, 0, 0, 1)
RotationCommand(node) ==
    [op |-> "glRotatef", args |-> <<RadiansToDegrees(node.theta), 0, 0, 1>>]

\* Variant: the factor passed for Z as well.
ScalingCommandXYZ(node) ==
    [op |-> "glScalef", args |-> <<node.factor, node.factor, node.factor>>]

\* Scaling.render: GL.glScalef(self._factor, self._factor, 1.0)
ScalingCommand(node) ==
    [op |-> "glScalef", args |-> <<node.factor, node.factor, 1>>]

\* Variant: the matrix was derived before render(), which evaluates no tangent.
TanCallsNone(node) == 0

\* The math.tan calls a decorator's transform statement makes while it builds
\* its argument list: the skews derive their matrix inside render().
TanCalls(node) == IF node.kind \in {"SkewX", "SkewY"} THEN 1 ELSE 0

\* The backend call a decorator's transform statement makes.
TransformCommand(node) ==
    CASE node.kind = "SkewX"       -> SkewXCommand(node)
      [] node.kind = "SkewY"       -> SkewYCommand(node)
      [] node.kind = "Translation" -> TranslationCommand(node)
      [] node.kind = "Rotation"    -> RotationCommand(node)
      [] node.kind = "Scaling"     -> ScalingCommand(node)

\* glRotatef(angle, 0, 0, 1) for the quarter turns: current := current * R.
glRotatef(stack, angle, x, y, z) ==
    LET q == (angle \div 90) % 4
        R == CASE q = 0 -> Identity
               [] q = 1 -> <<0,1,0,0, -1,0,0,0, 0,0,1,0, 0,0,0,1>>
               [] q = 2 -> <<-1,0,0,0, 0,-1,0,0, 0,0,1,0, 0,0,0,1>>
               [] q = 3 -> <<0,-1,0,0, 1,0,0,0, 0,0,1,0, 0,0,0,1>>
    IN  glMultMatrixf(stack, R)

\* The backend's matrix stack after it executes a command.
Exec(stack, cmd) ==
    CASE cmd.op = "glPushMatrix"  -> glPushMatrix(stack)
      [] cmd.op = "glPopMatrix"   -> glPopMatrix(stack)
      [] cmd.op = "glMultMatrixf" -> glMultMatrixf(stack, cmd.args)
      [] cmd.op = "glTranslatef"  -> glTranslatef(stack, cmd.args[1], cmd.args[2], cmd.args[3])
      [] cmd.op = "glScalef"      -> glScalef(stack, cmd.args[1], cmd.args[2], cmd.args[3])
      [] cmd.op = "glRotatef"     ->
            glRotatef(stack, cmd.args[1], cmd.args[2], cmd.args[3], cmd.args[4])
      [] cmd.op = "draw"          -> stack

\* A command as the backend records it: with the matrix current when it arrived
\* and the root whose traversal issued it.
Logged(cmd, stack) ==
    [op |-> cmd.op, args |-> cmd.args, ctm |-> Top(stack), by |-> root]

(***************************************************************************)
(* Frames of render().                                                     *)
(***************************************************************************)
NewFrame(node, stack, log) ==
    [node |-> node, pc |-> 1, entry |-> stack, from |-> Len(log)]

Finished(frame, stack, log, outcome) ==
    [node |-> frame.node, entry |-> frame.entry, exit |-> stack,
     from |-> frame.from, to |-> Len(log), depth |-> Len(frames),
     outcome |-> outcome]

top == frames[Len(frames)]

AtStep(step) ==
    /\ status = "running"
    /\ exc = "none"
    /\ frames # <<>>
    /\ top.pc <= Len(RenderBody(top.node))
    /\ RenderBody(top.node)[top.pc] = step

Advance == [frames EXCEPT ![Len(frames)].pc = @ + 1]

Issue(cmd) ==
    /\ mstack' = Exec(mstack, cmd)
    /\ cmds' = Append(cmds, Logged(cmd, mstack))

\* The value of parked when there is no second traversal.
NoTraversal == [root |-> Triangle, frames |-> <<>>, status |-> "absent", exc |-> "none"]

Init ==
    /\ root \in Trees(MaxDepth)
    /\ mstack \in InitialStacks
    /\ frames = <<>>
    /\ exc = "none"
    /\ status = "ready"
    /\ cmds = <<>>
    /\ calls = <<>>
    /\ tans = 0
    /\ roots = <<root>>
    /\ cursor = 1
    /\ frameNo = 1
    /\ parked = NoTraversal
    /\ preempted = FALSE

\* The caller invokes root.render().
CallRender ==
    /\ status = "ready"
    /\ status' = "running"
    /\ frames' = <<NewFrame(root, mstack, cmds)>>
    /\ UNCHANGED <<root, mstack, exc, cmds, calls, tans, window, sched>>

\* GL.glPushMatrix()
PushMatrix ==
    /\ AtStep("glPushMatrix")
    /\ Issue([op |-> "glPushMatrix", args |-> <<>>])
    /\ frames' = Advance
    /\ UNCHANGED <<root, exc, status, calls, tans, window, sched>>

\* GL.glMultMatrixf / glTranslatef / glRotatef / glScalef with its arguments.
ApplyTransform ==
    /\ AtStep("transform")
    /\ TransformGlobals(top.node) \subseteq ModuleGlobals
    /\ Issue(TransformCommand(top.node))
    /\ tans' = tans + TanCalls(top.node)
    /\ frames' = Advance
    /\ UNCHANGED <<root, exc, status, calls, window, sched>>

\* Evaluating the transform statement reads a name bound nowhere.
RaiseNameError ==
    /\ AtStep("transform")
    /\ ~ (TransformGlobals(top.node) \subseteq ModuleGlobals)
    /\ exc' = "NameError"
    /\ UNCHANGED <<root, mstack, frames, status, cmds, calls, tans, window, sched>>

\* self._node.render()
CallNode ==
    /\ AtStep("render")
    /\ frames' = Append(Advance, NewFrame(top.node.node, mstack, cmds))
    /\ UNCHANGED <<root, mstack, exc, status, cmds, calls, tans, window, sched>>

\* GL.glPopMatrix()
PopMatrix ==
    /\ AtStep("glPopMatrix")
    /\ Issue([op |-> "glPopMatrix", args |-> <<>>])
    /\ frames' = Advance
    /\ UNCHANGED <<root, exc, status, calls, tans, window, sched>>

\* The primitive emits its points, untransformed, to the backend.
Draw ==
    /\ AtStep("draw")
    /\ Issue([op |-> "draw", args |-> top.node.points])
    /\ frames' = Advance
    /\ UNCHANGED <<root, exc, status, calls, tans, window, sched>>

\* The end of a render() body: the frame returns to its caller.
Return ==
    /\ status = "running"
    /\ exc = "none"
    /\ frames # <<>>
    /\ top.pc > Len(RenderBody(top.node))
    /\ calls' = Append(calls, Finished(top, mstack, cmds, "returned"))
    /\ frames' = SubSeq(frames, 1, Len(frames) - 1)
    /\ status' = IF Len(frames) = 1 THEN "returned" ELSE status
    /\ UNCHANGED <<root, mstack, exc, cmds, tans, window, sched>>

\* An exception in flight leaves the innermost frame; no render() catches it.
Unwind ==
    /\ status = "running"
    /\ exc # "none"
    /\ frames # <<>>
    /\ calls' = Append(calls, Finished(top, mstack, cmds, "raised"))
    /\ frames' = SubSeq(frames, 1, Len(frames) - 1)
    /\ status' = IF Len(frames) = 1 THEN "raised" ELSE status
    /\ UNCHANGED <<root, mstack, exc, cmds, tans, window, sched>>

Next ==
    \/ CallRender
    \/ PushMatrix
    \/ ApplyTransform
    \/ RaiseNameError
    \/ CallNode
    \/ PopMatrix
    \/ Draw
    \/ Return
    \/ Unwind

Spec == Init /\ [][Next]_vars

(***************************************************************************)
(* The window's frame loop (core.Application.run): once per frame it calls *)
(* render() on every attached root, in attachment order.  An exception     *)
(* that leaves render() is caught by nobody and ends the loop.             *)
(***************************************************************************)
\* Most roots attached to the window, and most frames rendered.
MaxRoots == 2

MaxFrames == 2

\* The nodes of examples/skew_test.py, and others that share a sub-tree.
DemoNode == SkewX(Triangle, "-atan(2)")

DemoInner == Translation(Triangle, 250, 0)

DemoNode2 == Translation(DemoInner, 500, 0)

AttachableNodes ==
    { DemoNode, DemoInner, DemoNode2, Scaling(DemoInner, 2),
      Rotation(Triangle, [n |-> 0, d |-> 1]) }

RootLists == UNION { [1..n -> AttachableNodes] : n \in 1..MaxRoots }

InitWindow ==
    /\ roots \in RootLists
    /\ cursor = 1
    /\ frameNo = 1
    /\ root = roots[1]
    /\ mstack \in InitialStacks
    /\ frames = <<>>
    /\ exc = "none"
    /\ status = "ready"
    /\ cmds = <<>>
    /\ calls = <<>>
    /\ tans = 0
    /\ parked = NoTraversal
    /\ preempted = FALSE

\* The loop goes on to the next attached root of this frame.
NextRoot ==
    /\ status = "returned"
    /\ cursor < Len(roots)
    /\ cursor' = cursor + 1
    /\ root' = roots[cursor + 1]
    /\ status' = "ready"
    /\ UNCHANGED <<mstack, frames, exc, cmds, calls, tans, roots, frameNo, sched>>

\* The frame is presented and the loop starts the next one at the first root.
NextFrame ==
    /\ status = "returned"
    /\ cursor = Len(roots)
    /\ frameNo < MaxFrames
    /\ frameNo' = frameNo + 1
    /\ cursor' = 1
    /\ root' = roots[1]
    /\ status' = "ready"
    /\ UNCHANGED <<mstack, frames, exc, cmds, calls, tans, roots, sched>>

NextWindow ==
    \/ Next
    \/ NextRoot
    \/ NextFrame

SpecWindow == InitWindow /\ [][NextWindow]_vars

(***************************************************************************)
(* The frame loop over two roots that wrap the primitive in the same two   *)
(* decorators, in the two orders.                                          *)
(***************************************************************************)
SwapOffsets == Offsets \cup { <<0, 0>> }

SwappedPairs ==
       { << Scaling(Translation(Triangle, o[1], o[2]), f),
            Translation(Scaling(Triangle, f), o[1], o[2]) >> :
            o \in SwapOffsets, f \in Factors }
  \cup { << Translation(Rotation(Triangle, t), o[1], o[2]),
            Rotation(Translation(Triangle, o[1], o[2]), t) >> :
            o \in SwapOffsets, t \in Thetas }

InitSwapped ==
    /\ roots \in SwappedPairs
    /\ cursor = 1
    /\ frameNo = 1
    /\ root = roots[1]
    /\ mstack \in InitialStacks
    /\ frames = <<>>
    /\ exc = "none"
    /\ status = "ready"
    /\ cmds = <<>>
    /\ calls = <<>>
    /\ tans = 0
    /\ parked = NoTraversal
    /\ preempted = FALSE

SpecSwapped == InitSwapped /\ [][NextWindow]_vars

(***************************************************************************)
(* Two traversals on the one matrix stack.  A scheduler may suspend the    *)
(* running traversal before any of its backend calls, or between renders,  *)
(* and resume the other one.  An exception in flight ends the run.         *)
(***************************************************************************)
ParallelRoots ==
    { DemoInner, Scaling(Triangle, 2), Rotation(Triangle, [n |-> 0, d |-> 1]) }

InitParallel ==
    /\ roots \in [1..2 -> ParallelRoots]
    /\ cursor = 1
    /\ frameNo = 1
    /\ root = roots[1]
    /\ mstack \in InitialStacks
    /\ frames = <<>>
    /\ exc = "none"
    /\ status = "ready"
    /\ cmds = <<>>
    /\ calls = <<>>
    /\ tans = 0
    /\ parked = [root |-> roots[2], frames |-> <<>>, status |-> "ready", exc |-> "none"]
    /\ preempted = FALSE

\* The running traversal is about to make a backend call.
AtBackendCall ==
    \/ AtStep("glPushMatrix")
    \/ AtStep("transform")
    \/ AtStep("glPopMatrix")
    \/ AtStep("draw")

Switch ==
    /\ parked.status \in {"ready", "running"}
    /\ exc = "none"
    /\ status \in {"ready", "running", "returned"}
    /\ status = "running" => AtBackendCall
    /\ parked' = [root |-> root, frames |-> frames, status |-> status, exc |-> exc]
    /\ root' = parked.root
    /\ frames' = parked.frames
    /\ status' = parked.status
    /\ exc' = parked.exc
    /\ preempted' = (preempted \/ status = "running")
    /\ UNCHANGED <<mstack, cmds, calls, tans, window>>

NextParallel ==
    \/ Next
    \/ Switch

SpecParallel == InitParallel /\ [][NextParallel]_vars

(***************************************************************************)
(* Reference matrices, written row by row as in a textbook, and helpers    *)
(* for the properties below.                                               *)
(***************************************************************************)
FromRows(rows) == [i \in 1..16 |-> rows[((i - 1) % 4) + 1][((i - 1) \div 4) + 1]]

TranslateBy(x, y) ==
    FromRows(<< <<1,0,0,x>>, <<0,1,0,y>>, <<0,0,1,0>>, <<0,0,0,1>> >>)

ScaleBy(f) ==
    FromRows(<< <<f,0,0,0>>, <<0,f,0,0>>, <<0,0,1,0>>, <<0,0,0,1>> >>)

ShearX(t) ==
    FromRows(<< <<1,t,0,0>>, <<0,1,0,0>>, <<0,0,1,0>>, <<0,0,0,1>> >>)

ShearY(t) ==
    FromRows(<< <<1,0,0,0>>, <<t,1,0,0>>, <<0,0,1,0>>, <<0,0,0,1>> >>)

\* Anticlockwise rotation about Z by theta = (n/d) * pi, for quarter turns.
RotateBy(theta) ==
    LET q == ((2 * theta.n) \div theta.d) % 4
        cos == CASE q = 0 -> 1 [] q = 1 -> 0 [] q = 2 -> -1 [] q = 3 -> 0
        sin == CASE q = 0 -> 0 [] q = 1 -> 1 [] q = 2 -> 0 [] q = 3 -> -1
    IN  FromRows(<< <<cos,-sin,0,0>>, <<sin,cos,0,0>>, <<0,0,1,0>>, <<0,0,0,1>> >>)

\* M_D: the matrix of decorator D.
MatrixOf(node) ==
    CASE node.kind = "Translation" -> TranslateBy(node.x, node.y)
      [] node.kind = "Scaling"     -> ScaleBy(node.factor)
      [] node.kind = "SkewX"       -> ShearX(tan(node.degree))
      [] node.kind = "SkewY"       -> ShearY(tan(node.degree))
      [] node.kind = "Rotation"    -> RotateBy(node.theta)

Point(p) == <<p[1], p[2], 0, 1>>

TestPoints == { <<200, 200, 0, 1>>, <<100, 400, 0, 1>>, <<0, 0, 0, 1>>, <<7, -5, 3, 1>> }

DecoratorCalls == { i \in 1..Len(calls) : IsDecorator(calls[i].node) }

ReturnedCalls == { i \in DecoratorCalls : calls[i].outcome = "returned" }

\* The primitive has just emitted its points: they are the last command.
JustDrew ==
    /\ status = "running"
    /\ frames # <<>>
    /\ top.node.kind = "Triangle"
    /\ cmds # <<>>
    /\ cmds[Len(cmds)].op = "draw"

\* C * M_D1 * ... * M_Dk for the k outermost frames.
ComposedUpTo[k \in 0..Len(frames)] ==
    IF k = 0 THEN Top(frames[1].entry)
    ELSE MatMul(ComposedUpTo[k - 1], MatrixOf(frames[k].node))

\* The images of TestPoints under M_Dj, ..., M_Dk, with M_Dk applied first
\* and M_Dj last, for the decorators in frames j..k.
MappedInward[j \in 1..(Len(frames) + 1)] ==
    IF j >= Len(frames) THEN [v \in TestPoints |-> v]
    ELSE [v \in TestPoints |-> Transform(MatrixOf(frames[j].node), MappedInward[j + 1][v])]

(***************************************************************************)
(* Properties.                                                             *)
(***************************************************************************)

\* C1: whenever a decorator's render() has returned, whatever it wraps, the
\* matrix stack is as deep as it was when that render() was called.
C1_DepthRestoredOnReturn ==
    \A i \in ReturnedCalls : Len(calls[i].exit) = Len(calls[i].entry)

\* C1 witness: a decorator wrapping two further decorators has returned.
C1_Witness ==
    \E i \in ReturnedCalls :
        /\ IsDecorator(calls[i].node.node)
        /\ IsDecorator(calls[i].node.node.node)
        /\ Len(calls[i].entry) = 2

\* C2: a decorator's render() pops on every exit path, so whenever it has
\* finished, by return or by exception, the stack is no deeper than at entry.
C2_RestoredOnEveryExit ==
    \A i \in DecoratorCalls : Len(calls[i].exit) <= Len(calls[i].entry)

\* C3: render() of a tree of the five decorators around a primitive never
\* signals an error: no exception is ever in flight and none reaches the caller.
C3_NeverSignalsError ==
    /\ exc = "none"
    /\ status # "raised"

\* C4: the matrix current when the primitive emits its geometry is
\* C * M_D1 * ... * M_Dk, outer to inner, so that a vertex is mapped by M_Dk
\* first and by M_D1 last.
C4_OuterToInnerProduct ==
    JustDrew =>
        LET k == Len(frames) - 1
            ctm == cmds[Len(cmds)].ctm
        IN  /\ ctm = ComposedUpTo[k]
            /\ \A v \in TestPoints :
                   Transform(ctm, v) = Transform(Top(frames[1].entry), MappedInward[1][v])

\* C4 witness: the primitive has emitted under a scaling that wraps a
\* translation, from a base matrix that is not the identity (the product in
\* the opposite order is a different matrix).
C4_Witness ==
    /\ JustDrew
    /\ Len(frames) = 4
    /\ frames[1].node.kind = "Scaling"
    /\ frames[1].node.factor = 2
    /\ frames[2].node.kind = "Translation"
    /\ frames[3].node.kind = "SkewX"
    /\ Top(frames[1].entry) = BaseMatrix
    /\ MatMul(MatrixOf(frames[1].node), MatrixOf(frames[2].node))
         # MatMul(MatrixOf(frames[2].node), MatrixOf(frames[1].node))

\* The finished call of the node that call i wraps, made by call i itself:
\* it exited just before call i did, one frame deeper, within i's commands.
WrappedCallOf(i) ==
    { j \in 1..Len(calls) :
        /\ calls[j].node = calls[i].node.node
        /\ calls[j].depth = calls[i].depth + 1
        /\ calls[j].from >= calls[i].from
        /\ calls[j].to <= calls[i].to }

\* C5: every call of a decorator's render() issues, in this order and once
\* each, a push, its own transform, the wrapped node's render() and a pop;
\* its first command is the push and its last the pop.
C5_PushApplyRenderPop ==
    \A i \in DecoratorCalls :
        LET c == calls[i] IN
        /\ c.to >= c.from + 3
        /\ cmds[c.from + 1].op = "glPushMatrix"
        /\ cmds[c.from + 2].op = TransformCommand(c.node).op
        /\ cmds[c.from + 2].args = TransformCommand(c.node).args
        /\ cmds[c.to].op = "glPopMatrix"
        /\ \E j \in WrappedCallOf(i) :
               /\ calls[j].from = c.from + 2
               /\ calls[j].to = c.to - 1

\* C6: whenever a decorator's render() has returned, the whole matrix stack,
\* the current matrix and every entry below it, is what it was at the call.
C6_StackRestoredOnReturn ==
    \A i \in ReturnedCalls : calls[i].exit = calls[i].entry

\* C6 witness: a returned decorator that wraps another one, called on a
\* two-entry stack whose current matrix is not the identity.
C6_Witness ==
    \E i \in ReturnedCalls :
        /\ IsDecorator(calls[i].node.node)
        /\ calls[i].entry = <<Identity, BaseMatrix>>
        /\ MatrixOf(calls[i].node) # Identity

\* Two translations, the outer one in frame k, directly around the primitive
\* that has just emitted.
DrewUnderTwoTranslations(k) ==
    /\ JustDrew
    /\ Len(frames) = k + 2
    /\ frames[k].node.kind = "Translation"
    /\ frames[k + 1].node.kind = "Translation"

\* C7: a primitive wrapped in two translations is emitted where the single
\* translation by the summed offsets emits it; 250 and then 500 along X from
\* the identity give a net X offset of 750.
C7_TranslationsAdd ==
    \A k \in 1..Len(frames) :
        DrewUnderTwoTranslations(k) =>
            LET outer == frames[k].node
                inner == frames[k + 1].node
                base == Top(frames[k].entry)
                ctm == cmds[Len(cmds)].ctm
                sum == TranslateBy(outer.x + inner.x, outer.y + inner.y)
            IN  /\ ctm = MatMul(base, sum)
                /\ \A q \in 1..Len(top.node.points) :
                       Transform(ctm, Point(top.node.points[q]))
                         = Transform(base, Transform(sum, Point(top.node.points[q])))
                /\ (base = Identity /\ inner.x = 250 /\ outer.x = 500
                      /\ inner.y = 0 /\ outer.y = 0)
                     => /\ At(ctm, 0, 3) = 750
                        /\ Transform(ctm, <<200, 200, 0, 1>>) = <<950, 200, 0, 1>>

\* C7 witness: the demo's tree, Translation(Translation(Triangle, 250, 0), 500, 0),
\* has emitted its triangle from the identity.
C7_Witness ==
    /\ DrewUnderTwoTranslations(1)
    /\ root = Translation(Translation(Triangle, 250, 0), 500, 0)
    /\ Top(frames[1].entry) = Identity

\* C8: every Rotation.render() issues, right after its push and before the
\* wrapped node's render(), glRotatef(theta * 180 / pi, 0, 0, 1), with theta
\* as stored.
C8_RotationIssuesDegrees ==
    \A i \in DecoratorCalls :
        calls[i].node.kind = "Rotation" =>
            LET c == calls[i] IN
            /\ c.to >= c.from + 2
            /\ cmds[c.from + 1].op = "glPushMatrix"
            /\ cmds[c.from + 2].op = "glRotatef"
            /\ cmds[c.from + 2].args = <<(c.node.theta.n * 180) \div c.node.theta.d, 0, 0, 1>>
            /\ \E j \in WrappedCallOf(i) : calls[j].from = c.from + 2

\* C9: Rotation(N, 0).render() has N rendered under the matrix that was
\* current at the call, and returns with the matrix stack unchanged.
C9_RotationZeroIsIdentity ==
    \A i \in DecoratorCalls :
        (calls[i].node.kind = "Rotation" /\ calls[i].node.theta.n = 0) =>
            /\ calls[i].outcome = "returned"
            /\ calls[i].exit = calls[i].entry
            /\ \E j \in WrappedCallOf(i) : Top(calls[j].entry) = Top(calls[i].entry)

\* A Scaling frame whose transform has been issued and whose wrapped node
\* has not started yet.
ScalingApplied ==
    /\ status = "running"
    /\ exc = "none"
    /\ frames # <<>>
    /\ top.node.kind = "Scaling"
    /\ Len(cmds) > top.from
    /\ cmds[Len(cmds)].op = "glScalef"

\* C10: Scaling(N, f) scales X and Y by f about the origin and leaves Z alone:
\* N is rendered under a matrix that maps (x, y, z) as the enclosing matrix
\* maps (f*x, f*y, z).  With f = 1 that is the enclosing matrix itself; with
\* f = 0 every vertex of a wrapped primitive lands on the enclosing origin.
C10_ScalingAboutOrigin ==
    /\ ScalingApplied =>
           LET f == top.node.factor
               base == Top(top.entry)
               ctm == Top(mstack)
           IN  /\ \A v \in TestPoints :
                      Transform(ctm, v) = Transform(base, <<f * v[1], f * v[2], v[3], v[4]>>)
               /\ f = 1 => ctm = base
               /\ cmds[Len(cmds)].args = <<f, f, 1>>
    /\ (JustDrew /\ Len(frames) >= 2 /\ frames[Len(frames) - 1].node.kind = "Scaling") =>
           LET f == frames[Len(frames) - 1].node.factor
               base == Top(frames[Len(frames) - 1].entry)
               ctm == cmds[Len(cmds)].ctm
           IN  \A q \in 1..Len(top.node.points) :
                   LET v == Point(top.node.points[q]) IN
                   /\ f = 1 => Transform(ctm, v) = Transform(base, v)
                   /\ f = 0 => Transform(ctm, v) = Transform(base, <<0, 0, 0, 1>>)

\* C10 witness: a primitive has been emitted under Scaling by 0 inside a
\* translation, so the enclosing origin is not the backend's origin.
C10_Witness ==
    /\ JustDrew
    /\ Len(frames) = 3
    /\ frames[1].node.kind = "Translation"
    /\ frames[2].node.kind = "Scaling"
    /\ frames[2].node.factor = 0
    /\ Transform(cmds[Len(cmds)].ctm, <<200, 200, 0, 1>>)
         = Transform(Top(frames[2].entry), <<0, 0, 0, 1>>)
    /\ Transform(Top(frames[2].entry), <<0, 0, 0, 1>>) # <<0, 0, 0, 1>>

(***************************************************************************)
(* Helpers for the properties of whole runs.                               *)
(***************************************************************************)
\* The finished calls made by the caller itself: render() of a root.
RootCalls == { i \in 1..Len(calls) : calls[i].depth = 1 }

\* The commands issued during finished call i, in order.
CommandsOf(i) == SubSeq(cmds, calls[i].from + 1, calls[i].to)

\* The matrix that was current when the run's first command arrived.
Base == cmds[1].ctm

\* M_D1 * ... * M_Dk for the decorators from node down to the primitive.
RECURSIVE ChainMatrix(_)
ChainMatrix(node) ==
    IF IsDecorator(node) THEN MatMul(MatrixOf(node), ChainMatrix(node.node))
    ELSE Identity

\* C11: render() is idempotent: any two render() calls the caller makes on
\* the same tree, in one frame or in different frames, issue the same
\* commands in the same order, with the same arguments, and the backend
\* receives them under the same current matrices.
C11_SameCommandsEveryRender ==
    \A i \in RootCalls : \A j \in RootCalls :
        calls[i].node = calls[j].node => CommandsOf(i) = CommandsOf(j)

\* C11 witness: the demo's doubly translated node has been rendered in two
\* frames, with another root rendered in between.
C11_Witness ==
    /\ frameNo = 2
    /\ Len(roots) = 2
    /\ roots[1] = DemoNode2
    /\ roots[2] = DemoNode
    /\ \E i \in RootCalls : \E j \in RootCalls :
           /\ calls[i].node = DemoNode2
           /\ calls[j].node = DemoNode2
           /\ calls[i].from < calls[j].from
           /\ Len(CommandsOf(j)) = 7

\* The finished calls that returned, of decorators and primitives alike.
AllReturned == { i \in 1..Len(calls) : calls[i].outcome = "returned" }

\* The root in whose traversal finished call i was made.
RootOf(i) == cmds[calls[i].from + 1].by

\* The kinds and arguments of the commands issued during finished call i.
OpsArgs(i) ==
    [k \in 1..Len(CommandsOf(i)) |-> <<CommandsOf(i)[k].op, CommandsOf(i)[k].args>>]

\* M_D1 * ... * M_Dk for the k outermost decorators of node.
RECURSIVE PrefixMatrix(_, _)
PrefixMatrix(node, k) ==
    IF k = 0 THEN Identity
    ELSE MatMul(MatrixOf(node), PrefixMatrix(node.node, k - 1))

RECURSIVE NestingDepth(_)
NestingDepth(node) == IF IsDecorator(node) THEN 1 + NestingDepth(node.node) ELSE 0

\* C12: a sub-tree reachable from several roots or parents is rendered
\* independently each time: every returned render() of it starts under the
\* base matrix times the decorators that enclose that instance only, issues
\* its full command sequence (three commands per decorator and the draw),
\* and issues the same kinds and arguments as every other instance.
C12_SharedSubtreeIndependent ==
    \A i \in AllReturned :
        /\ Top(calls[i].entry) = MatMul(Base, PrefixMatrix(RootOf(i), calls[i].depth - 1))
        /\ Len(CommandsOf(i)) = 3 * NestingDepth(calls[i].node) + 1
        /\ \A j \in AllReturned :
               calls[j].node = calls[i].node => OpsArgs(j) = OpsArgs(i)

\* C12 witness: the translated triangle of the demo has been rendered under
\* a Scaling parent and then under a Translation parent, under different
\* matrices, from a base that is not the identity.
C12_Witness ==
    /\ roots = <<Scaling(DemoInner, 2), DemoNode2>>
    /\ \E i \in AllReturned : \E j \in AllReturned :
           /\ calls[i].node = DemoInner
           /\ calls[j].node = DemoInner
           /\ RootOf(i) = Scaling(DemoInner, 2)
           /\ RootOf(j) = DemoNode2
           /\ i < j
           /\ Top(calls[i].entry) # Top(calls[j].entry)
           /\ Base = BaseMatrix

\* The arguments render() derives from the parameters the decorator stores.
DerivedArgs(node) ==
    CASE node.kind = "SkewX"       -> ShearX(tan(node.degree))
      [] node.kind = "SkewY"       -> ShearY(tan(node.degree))
      [] node.kind = "Translation" -> <<node.x, node.y, 0>>
      [] node.kind = "Scaling"     -> <<node.factor, node.factor, 1>>
      [] node.kind = "Rotation"    -> <<(node.theta.n * 180) \div node.theta.d, 0, 0, 1>>

\* The decorator calls that got as far as issuing their transform.
TransformedCalls == { i \in DecoratorCalls : calls[i].to >= calls[i].from + 2 }

SkewCommands == { k \in 1..Len(cmds) : cmds[k].op = "glMultMatrixf" }

SkewApplied ==
    /\ status = "running"
    /\ exc = "none"
    /\ frames # <<>>
    /\ top.node.kind \in {"SkewX", "SkewY"}
    /\ Len(cmds) > top.from
    /\ cmds[Len(cmds)].op = "glMultMatrixf"

SkewTestPoints == TestPoints \cup { <<3, 4, 5, 2>> }

\* Where a skew of tangent t must send the point v.
Sheared(kind, t, v) ==
    IF kind = "SkewX" THEN <<v[1] + t * v[2], v[2], v[3], v[4]>>
    ELSE <<v[1], v[2] + t * v[1], v[3], v[4]>>

MisplacedDraws ==
    { k \in 1..Len(cmds) :
        /\ cmds[k].op = "draw"
        /\ cmds[k].ctm # MatMul(Base, ChainMatrix(cmds[k].by)) }

\* C15: as long as the two traversals on the shared matrix stack have been
\* serialized (neither was suspended inside render()), every primitive is
\* emitted under the base matrix times its own root's decorators; only an
\* interleaving inside render() can break that (the witness).
C15_SerializedTraversalsSafe ==
    ~ preempted => MisplacedDraws = {}

\* C15 witness: after a traversal was suspended inside render(), a primitive
\* has been emitted under a matrix that is not the product of its own
\* enclosing decorators.
C15_Witness ==
    /\ preempted
    /\ MisplacedDraws # {}

\* C16: in the frame loop no decorator's transform reaches a later render():
\* every render() the loop makes starts on the stack the run began with, and
\* every primitive is emitted under the base matrix times the decorators of
\* its own root only, for every root and every frame.
C16_NoLeakIntoLaterRender ==
    /\ MisplacedDraws = {}
    /\ \A i \in RootCalls : \A j \in RootCalls : calls[i].entry = calls[j].entry
    /\ status = "ready" => Len(mstack) <= 2

\* C16 witness: in the second frame the second root, a scaling around a
\* translation, has emitted after a translated root, from a base matrix that
\* is not the identity.
C16_Witness ==
    /\ frameNo = 2
    /\ cursor = 2
    /\ roots = <<DemoNode2, Scaling(DemoInner, 2)>>
    /\ JustDrew
    /\ Base = BaseMatrix
    /\ cmds[Len(cmds)].ctm = MatMul(BaseMatrix, MatMul(ScaleBy(2), TranslateBy(250, 0)))

\* The number of commands of the given kinds the backend has received.
Issued(ops) == Cardinality({ k \in 1..Len(cmds) : cmds[k].op \in ops })

TransformOps == {"glMultMatrixf", "glTranslatef", "glRotatef", "glScalef"}

\* C17: render() of a tree ends having issued exactly one push, one transform
\* and one pop per decorator of the tree and one render of the primitive, and
\* it never leaves a render() between a push and its matching pop.
C17_OncePerDecorator ==
    /\ status \in {"returned", "raised"} =>
           /\ Issued({"glPushMatrix"}) = NestingDepth(root)
           /\ Issued(TransformOps) = NestingDepth(root)
           /\ Issued({"glPopMatrix"}) = NestingDepth(root)
           /\ Issued({"draw"}) = 1
    /\ \A i \in DecoratorCalls :
           Cardinality({ k \in calls[i].from + 1..calls[i].to : cmds[k].op = "glPushMatrix" })
             = Cardinality({ k \in calls[i].from + 1..calls[i].to : cmds[k].op = "glPopMatrix" })

\* A decorator's render() has made its push and nothing else yet.
AfterPush ==
    /\ AtStep("transform")
    /\ cmds # <<>>
    /\ cmds[Len(cmds)].op = "glPushMatrix"

\* A decorator's render() has applied its transform and is about to render
\* the wrapped node.
AfterTransform ==
    /\ AtStep("render")
    /\ Len(cmds) = top.from + 2

C19_ValueReachesBackendSilently ==
    /\ status = "ready" /\ frameNo = 1 /\ cursor = 1 => cmds = <<>>
    /\ \A i \in DecoratorCalls :
           /\ calls[i].outcome = "returned"
           /\ i \in TransformedCalls
           /\ cmds[calls[i].from + 2].args = DerivedArgs(calls[i].node)

\* The pushes less the pops among commands a+1..b of the log.
Balance(a, b) ==
    Cardinality({ k \in a + 1..b : cmds[k].op = "glPushMatrix" })
      - Cardinality({ k \in a + 1..b : cmds[k].op = "glPopMatrix" })

\* C20: at every point of a render() the stack is at least as deep as at its
\* entry and the entries that existed at entry are still there, unchanged
\* below the top: after any number of its commands the pops never outnumber
\* the pushes, so a pop only removes an entry the same call tree pushed.
C20_NeverBelowEntryDepth ==
    /\ \A k \in 1..Len(frames) :
           /\ Len(mstack) >= Len(frames[k].entry)
           /\ SubSeq(mstack, 1, Len(frames[k].entry) - 1)
                = SubSeq(frames[k].entry, 1, Len(frames[k].entry) - 1)
           /\ \A b \in frames[k].from..Len(cmds) : Balance(frames[k].from, b) >= 0
           /\ Len(mstack) = Len(frames[k].entry) + Balance(frames[k].from, Len(cmds))
    /\ \A i \in 1..Len(calls) :
           /\ Len(calls[i].exit) >= Len(calls[i].entry)
           /\ \A b \in calls[i].from..calls[i].to : Balance(calls[i].from, b) >= 0

\* C20 witness: a decorator nested in another, entered on a stack of two
\* entries, has just made its pop, and the stack is as it was at its entry.
C20_Witness ==
    /\ status = "running"
    /\ Len(frames) >= 2
    /\ IsDecorator(top.node)
    /\ Len(top.entry) = 3
    /\ cmds[Len(cmds)].op = "glPopMatrix"
    /\ top.pc > Len(RenderBody(top.node))
    /\ mstack = top.entry

\* The roots are Scaling(Translation(P, x, y), f) and Translation(Scaling(P, f), x, y).
ScaleAndTranslateSwapped ==
    /\ Len(roots) = 2
    /\ roots[1].kind = "Scaling"
    /\ roots[1].node.kind = "Translation"
    /\ roots[2] = Translation(Scaling(roots[1].node.node, roots[1].factor),
                              roots[1].node.x, roots[1].node.y)

\* The matrices under which the primitive of the given root was drawn.
DrawnUnder(r) == { cmds[k].ctm : k \in { j \in 1..Len(cmds) : cmds[j].op = "draw" /\ cmds[j].by = r } }

Origin == <<0, 0, 0, 1>>

\* C21: Scaling(Translation(P, x, y), f) draws P with its local origin at
\* (f*x, f*y) and Translation(Scaling(P, f), x, y) draws it with its local
\* origin at (x, y), both in the coordinates current at entry; whenever
\* f # 1 and (x, y) # (0, 0) the two trees draw the origin and every point of
\* P at different positions.
C21_ScaleTranslateDoNotCommute ==
    ScaleAndTranslateSwapped =>
        LET f == roots[1].factor
            x == roots[1].node.x
            y == roots[1].node.y
        IN  /\ \A m \in DrawnUnder(roots[1]) :
                   Transform(m, Origin) = Transform(Base, <<f * x, f * y, 0, 1>>)
            /\ \A m \in DrawnUnder(roots[2]) :
                   Transform(m, Origin) = Transform(Base, <<x, y, 0, 1>>)
            /\ (f # 1 /\ <<x, y>> # <<0, 0>>) =>
                   \A m1 \in DrawnUnder(roots[1]) : \A m2 \in DrawnUnder(roots[2]) :
                       /\ Transform(m1, Origin) # Transform(m2, Origin)
                       /\ \A i \in 1..Len(Triangle.points) :
                              Transform(m1, Point(Triangle.points[i]))
                                # Transform(m2, Point(Triangle.points[i]))

\* C21 witness: both orders of a scaling by 2 and a translation by (250, 0)
\* have drawn the primitive, from a base matrix that is not the identity, and
\* its origin landed in two different places.
C21_Witness ==
    /\ ScaleAndTranslateSwapped
    /\ roots[1].factor = 2
    /\ roots[1].node.x = 250
    /\ DrawnUnder(roots[1]) # {}
    /\ DrawnUnder(roots[2]) # {}
    /\ Base = BaseMatrix
    /\ \E m1 \in DrawnUnder(roots[1]) : \E m2 \in DrawnUnder(roots[2]) :
           /\ Transform(m1, Origin) = Transform(BaseMatrix, <<500, 0, 0, 1>>)
           /\ Transform(m2, Origin) = Transform(BaseMatrix, <<250, 0, 0, 1>>)

\* The deepest the backend stack has been among the commands logged so far
\* and now.
RECURSIVE DeepestFrom(_, _)
DeepestFrom(k, depth) ==
    IF k > Len(cmds) THEN depth
    ELSE LET after == CASE cmds[k].op = "glPushMatrix" -> depth + 1
                        [] cmds[k].op = "glPopMatrix"  -> depth - 1
                        [] OTHER                       -> depth
         IN  IF after > DeepestFrom(k + 1, after) THEN after ELSE DeepestFrom(k + 1, after)

\* A primitive's render() has just been invoked and has done nothing yet.
PrimitiveInvoked ==
    /\ AtStep("draw")
    /\ Len(cmds) = top.from

\* C22: when a primitive's render() is invoked the stack is as deep as at the
\* entry of the root's render() plus the number of decorators around the
\* primitive, and when the root's render() is over the deepest the stack has
\* been is the entry depth plus the tree's nesting depth.
C22_DepthIsEntryPlusNesting ==
    /\ PrimitiveInvoked =>
           /\ Len(mstack) = Len(frames[1].entry) + (Len(frames) - 1)
           /\ Len(frames) - 1 = NestingDepth(root)
    /\ status \in {"returned", "raised"} =>
           LET entry == Len(mstack) - Balance(0, Len(cmds))
               deepest == IF DeepestFrom(1, entry) > entry THEN DeepestFrom(1, entry) ELSE entry
           IN  deepest = entry + NestingDepth(root)

====
